---- MODULE Spec2Model ----
(***************************************************************************)
(* Batch ingestion pipeline of the-batch-rag-app:                          *)
(*   VectorStoreBatchProcessor.process_urls / process_images               *)
(*   (src/preprocessing/documents_processing.py),                          *)
(*   FaissManager (src/helpers/vectorstore_manager.py),                    *)
(*   IngestionHelper (src/helpers/ingestion.py).                           *)
(*                                                                         *)
(* One processor object runs one pipeline call at a time; each call is     *)
(* split into the steps at which an external collaborator (file system,    *)
(* web loader, summarizer, embedder) may fail.                             *)
(***************************************************************************)
EXTENDS Integers, Sequences, FiniteSets, Bags, TLC

\* ------------------------------------------------------------------ bounds
MaxLines == 3       \* lines of the URL file
MaxBatchSize == 2   \* batch_size ranges over 1..MaxBatchSize
MaxBatchLimit == 2  \* batch_limit ranges over None, 0..MaxBatchLimit
MaxUrlsLimit == 2   \* urls_limit ranges over None, 1..MaxUrlsLimit
MaxImages == 2      \* image documents handed to one process_images call
MaxCalls == 2       \* pipeline calls (process_urls / process_images) per behaviour
MaxManagerCalls == 3 \* calls of FaissManager's methods per behaviour of ManagerSpec

\* ----------------------------------------------------------------- strings
\* Python's None, where the other values are records or bags.
None == [py |-> "None"]

\* A file that does not exist.
Missing == [file |-> "missing"]

\* An optional int (batch_limit, urls_limit): << >> is None, << n >> is the int n.
NoInt == << >>
Int1(n) == << n >>

\* A line of the URL file is a sequence of characters; Text turns it into a string.
RECURSIVE Text(_)
Text(cs) == IF cs = <<>> THEN "" ELSE Head(cs) \o Text(Tail(cs))

startswith(cs, prefix) ==
    /\ Len(cs) >= Len(prefix)
    /\ SubSeq(cs, 1, Len(prefix)) = prefix

\* str.strip(): leading and trailing white space removed.
RECURSIVE lstrip(_)
lstrip(cs) == IF cs # <<>> /\ Head(cs) = " " THEN lstrip(Tail(cs)) ELSE cs

RECURSIVE rstrip(_)
rstrip(cs) ==
    IF cs # <<>> /\ cs[Len(cs)] = " " THEN rstrip(SubSeq(cs, 1, Len(cs) - 1)) ELSE cs

strip(cs) == rstrip(lstrip(cs))

\* config.BASE_URL ("https://www.deeplearning.ai", shortened): no path component.
BASE_URL == "https://b"

\* urljoin(base, url) for a base without path and a url that starts with "/".
urljoin(base, cs) == base \o Text(cs)

\* IngestionHelper.normalize_url; base_url is tested for truth, "" stands for None.
normalize_url(cs, base_url) ==
    IF ~startswith(cs, <<"h", "t", "t", "p">>)
    THEN IF startswith(cs, <<"/", "/">>) THEN "https:" \o Text(cs)
         ELSE IF startswith(cs, <<"/">>)
              THEN IF base_url # "" THEN urljoin(base_url, cs) ELSE "https:" \o Text(cs)
              ELSE "https://" \o Text(cs)
    ELSE Text(cs)

\* --------------------------------------------------------------- the inputs
RawLines ==
    { <<" ">>,                                  \* a blank line
      <<"/", "c", " ">>,                        \* relative to BASE_URL
      <<"h", "t", "t", "p", ":", "d">> }        \* absolute

RECURSIVE SeqsUpTo(_, _)
SeqsUpTo(S, n) ==
    IF n = 0 THEN { <<>> }
    ELSE LET shorter == SeqsUpTo(S, n - 1)
         IN shorter \cup { Append(s, x) : s \in { t \in shorter : Len(t) = n - 1 }, x \in S }

\* The URL file: its lines, or a file that cannot be opened.
Unreadable == [readable |-> FALSE, lines |-> << >>]
UrlFiles == { [readable |-> TRUE, lines |-> s] : s \in SeqsUpTo(RawLines, MaxLines) } \cup { Unreadable }

Urls == { normalize_url(strip(l), BASE_URL) : l \in { r \in RawLines : strip(r) # <<>> } }

\* What the web may serve for a URL: the page text, and a <title> or none. The
\* text of the first URL changes over time, the other page may lose its title.
PagesOf(u) ==
    IF u = "https://b/c"
    THEN { [text |-> "c1", title |-> "T"], [text |-> "c2", title |-> "T"] }
    ELSE { [text |-> "c1", title |-> "T"], [text |-> "c1"] }

InitialPage == [text |-> "c1", title |-> "T"]

Webs == { f \in [Urls -> UNION { PagesOf(u) : u \in Urls }] : \A u \in Urls : f[u] \in PagesOf(u) }

\* ------------------------------------------------------------------- state
VARIABLES
    batch_size,        \* VectorStoreBatchProcessor._batch_size
    web,               \* URL -> page, as the loader fetched it last
    disk,              \* the persisted index at faiss_index_path
    vector_store,      \* FaissManager.vector_store: None or the docstore's documents
    pc,                \* position of the running pipeline call
    calls,             \* pipeline calls started so far
    result,            \* how the call ended: "db", "none", or the exception it raised
    urls,              \* process_urls: urls
    batch_limit,       \* process_urls: batch_limit
    total_batches,     \* process_urls: total_batches
    batch_num,         \* process_urls: batch_num
    batch_urls,        \* process_urls: batch_urls
    documents,         \* process_urls: documents; process_images: indexed_image_documents
    unique_documents,  \* process_urls: unique_documents; process_images: unique_images
    enriched,          \* process_urls: how many of unique_documents are summarized so far
    hist               \* history of the running call (what the claims speak about)

store == << disk, vector_store >>
locals ==
    << urls, batch_limit, total_batches, batch_num, batch_urls, documents,
       unique_documents, enriched >>
vars == << batch_size, web, store, pc, calls, result, locals, hist >>

\* ------------------------------------------------------- documents, hashing
\* dict.get(key, default)
Get(md, key, default) == IF key \in DOMAIN md THEN md[key] ELSE default

\* str(dict.get(key)) of a dict of strings: a missing key gives the text "None".
str_get(md, key) == Get(md, key, "None")

\* dict[key] = value
SetKey(md, key, value) ==
    [k \in DOMAIN md \cup {key} |-> IF k = key THEN value ELSE md[k]]

\* WebBaseLoader: one Document per URL, metadata source and (if the page has one) title.
LoadDocument(url, page) ==
    [page_content |-> page.text,
     metadata |-> IF "title" \in DOMAIN page
                  THEN [source |-> url, title |-> page.title]
                  ELSE [source |-> url]]

\* hashlib.md5(...).hexdigest(), taken to be collision free.
md5(bytes) == << "md5", bytes >>

\* json.dumps(s) of a string: the string in double quotes.
json_dumps(s) == << "\"", s, "\"" >>

\* str.encode('utf-8')
encode(s) == << "utf-8", s >>

\* IngestionHelper.compute_doc_hash
compute_doc_hash(doc) == md5(encode(json_dumps(doc)))

\* A slip: the hash also covers the page text ("based on content and metadata").
value_to_hash_of_content(doc) ==
    encode(json_dumps(compute_doc_hash(
        str_get(doc.metadata, "source") \o str_get(doc.metadata, "title") \o doc.page_content)))

\* process_urls' value_to_hash of a Document (lines 159-163 and 168-172).
value_to_hash(doc) ==
    encode(json_dumps(compute_doc_hash(
        str_get(doc.metadata, "source") \o str_get(doc.metadata, "title"))))

\* IngestionHelper.compute_image_hash
compute_image_hash(doc) == md5(encode(Get(doc.metadata, "encoded_image", "")))

\* A FAISS store: its docstore, the bag of documents under their (random) ids. The
\* embedding index holds one vector per document of the docstore.
EmptyStore == [docstore |-> EmptyBag]

\* The documents of a sequence, as a bag.
RECURSIVE BagOfSeq(_)
BagOfSeq(s) == IF s = <<>> THEN EmptyBag ELSE SetToBag({Head(s)}) (+) BagOfSeq(Tail(s))

\* A slip: the documents are read from the store as it was persisted when the call
\* began, not from the live store.
DocstoreValuesAtStart(db) ==
    IF hist.startPkl = Missing THEN {} ELSE BagToSet(hist.startPkl.docstore)

\* db.docstore._dict.values(): the documents held by a store (db.docstore is falsy
\* never: an InMemoryDocstore object is always truthy).
DocstoreValues(db) == BagToSet(db.docstore)

\* process_urls lines 156-164
existing_hashes(db) == { value_to_hash(doc) : doc \in DocstoreValues(db) }

\* process_urls lines 166-173
UniqueDocuments(docs, db) ==
    LET existing == existing_hashes(db)
        IsNew(doc) == value_to_hash(doc) \notin existing
    IN SelectSeq(docs, IsNew)

\* A slip: the test for new documents is left out.
HasNewAlways(unique) == TRUE

\* process_urls line 175 and process_images line 209: a non-empty list is true.
HasNew(unique) == unique # <<>>

\* process_images lines 200-202
existing_image_hashes(db) == { compute_image_hash(doc) : doc \in DocstoreValues(db) }

\* process_images lines 204-207
UniqueImages(docs, db) ==
    LET existing == existing_image_hashes(db)
        IsNew(doc) == compute_image_hash(doc) \notin existing
    IN SelectSeq(docs, IsNew)

\* ------------------------------------------------------------ FaissManager
\* The persisted index: the directory at index_path and FAISS.save_local's two
\* files in it, index.faiss (the embedding index) and index.pkl (the docstore).
\* Each file is Missing or holds the store it was written from.
NoIndex == [dir |-> FALSE, faiss |-> Missing, pkl |-> Missing]

\* os.path.exists(self.index_path)
IndexPathExists(d) == d.dir

\* FAISS.load_local can read both files.
Loadable(d) == d.dir /\ d.faiss # Missing /\ d.pkl # Missing

\* How a call of the environment may end.
SaveOutcomes == { "ok", "fail_before_write", "fail_between_files" }

\* A slip: save_local adds the records to those of the file instead of replacing it.
SaveLocalAppend(d, vs, o) ==
    LET appended == IF d.pkl = Missing THEN vs
                    ELSE [vs EXCEPT !.docstore = d.pkl.docstore (+) @]
    IN CASE o = "ok" -> [dir |-> TRUE, faiss |-> appended, pkl |-> appended]
         [] o = "fail_before_write" -> d
         [] o = "fail_between_files" -> [dir |-> TRUE, faiss |-> appended, pkl |-> d.pkl]

\* FAISS.save_local(index_path) from the store vs: the directory is made, then
\* index.faiss is written, then index.pkl; a failure leaves what was done before it.
SaveLocal(d, vs, o) ==
    CASE o = "ok" -> [dir |-> TRUE, faiss |-> vs, pkl |-> vs]
      [] o = "fail_before_write" -> d
      [] o = "fail_between_files" -> [dir |-> TRUE, faiss |-> vs, pkl |-> d.pkl]

\* A slip: save writes nothing.
saveNothing(d, vs, o) == d

\* FaissManager.save: the persisted index after the call.
save(d, vs, o) == IF vs # None THEN SaveLocal(d, vs, o) ELSE d

\* A slip: a failure of save_local is swallowed.
SaveRaisesNever(vs, o) == FALSE

\* FaissManager.save raises.
SaveRaises(vs, o) == vs # None /\ o # "ok"

\* The outcomes load_or_create can have on the persisted index d.
LoadOutcomes(d) ==
    IF IndexPathExists(d)
    THEN (IF Loadable(d) THEN { "ok" } ELSE {}) \cup { "load_error" }
    ELSE SaveOutcomes \cup { "embed_error" }

\* FaissManager.load_or_create raises.
LoadRaises(d, o) == o # "ok"

\* A slip: load_or_create keeps the store the manager already holds.
LoadedStoreKeep(d, vs, o) ==
    IF vs # None THEN vs
    ELSE IF IndexPathExists(d)
         THEN (IF o = "ok" THEN d.pkl ELSE vs)
         ELSE (IF o = "embed_error" THEN vs ELSE EmptyStore)

\* A slip: load_or_create makes a new store also when an index is persisted.
LoadedStoreFresh(d, vs, o) == IF o = "ok" THEN EmptyStore ELSE vs

\* FaissManager.load_or_create: self.vector_store after the call.
LoadedStore(d, vs, o) ==
    IF IndexPathExists(d)
    THEN (IF o = "ok" THEN d.pkl ELSE vs)
    ELSE (IF o = "embed_error" THEN vs ELSE EmptyStore)

\* A slip: the new store is not saved when it is created.
LoadedDiskNoSave(d, o) == d

\* A slip: an index that cannot be loaded is replaced by a new, empty one.
LoadedDiskRecreate(d, o) ==
    IF o = "embed_error" THEN d
    ELSE IF IndexPathExists(d)
         THEN (IF o = "load_error" THEN SaveLocal(d, EmptyStore, "ok") ELSE d)
         ELSE save(d, EmptyStore, o)

\* FaissManager.load_or_create: the persisted index after the call.
LoadedDisk(d, o) ==
    IF IndexPathExists(d) \/ o = "embed_error" THEN d ELSE save(d, EmptyStore, o)

\* FaissManager.add_documents on a store that load_or_create has set.
add_documents(vs, docs) == [vs EXCEPT !.docstore = @ (+) BagOfSeq(docs)]

\* ------------------------------------------------------------------ inputs
BatchSizes == 1 .. MaxBatchSize
BatchLimits == { NoInt } \cup { Int1(n) : n \in 0 .. MaxBatchLimit }
UrlsLimits == { NoInt } \cup { Int1(n) : n \in 1 .. MaxUrlsLimit }

\* Image documents as ImageCaptioner.index_image builds them: a fresh id each, the
\* caption as content; an image that could not be encoded has the payload "".
ImageDocs ==
    { [page_content |-> "cap1",
       metadata |-> [id |-> "i1", type |-> "image", source_file |-> "/f1", encoded_image |-> "FF"]],
      [page_content |-> "cap2",
       metadata |-> [id |-> "i2", type |-> "image", source_file |-> "/f2", encoded_image |-> "FF"]],
      [page_content |-> "",
       metadata |-> [id |-> "i3", type |-> "image", source_file |-> "/f3", encoded_image |-> ""]] }

ImageLists ==
    { s \in SeqsUpTo(ImageDocs, MaxImages) : \A i, j \in 1 .. Len(s) : i # j => s[i] # s[j] }

Min(a, b) == IF a <= b THEN a ELSE b

\* list[start:stop] for 0 <= start <= stop
Slice(s, start, stop) == SubSeq(s, start + 1, Min(stop, Len(s)))

\* VectorStoreBatchProcessor._read_urls_file
read_urls_file(file) ==
    IF ~file.readable THEN <<>>
    ELSE LET NotBlank(line) == strip(line) # <<>>
             kept == SelectSeq(file.lines, NotBlank)
         IN [i \in 1 .. Len(kept) |-> strip(kept[i])]

\* A slip: the cut keeps one URL too many.
PreparedUrlsOneMore(lines, urls_limit) ==
    LET normalized == [i \in 1 .. Len(lines) |-> normalize_url(lines[i], BASE_URL)]
    IN IF urls_limit # NoInt THEN Slice(normalized, 0, urls_limit[1] + 1) ELSE normalized

\* process_urls lines 130-134: the URLs normalized, then cut to urls_limit.
PreparedUrls(lines, urls_limit) ==
    LET normalized == [i \in 1 .. Len(lines) |-> normalize_url(lines[i], BASE_URL)]
    IN IF urls_limit # NoInt THEN Slice(normalized, 0, urls_limit[1]) ELSE normalized

\* A slip: the division rounds down.
TotalBatchesFloor(n, size, limit) ==
    LET available == n \div size
    IN IF limit # NoInt THEN Min(available, limit[1]) ELSE available

\* process_urls lines 141-146
TotalBatches(n, size, limit) ==
    LET available == (n + size - 1) \div size
    IN IF limit # NoInt THEN Min(available, limit[1]) ELSE available

\* A slip: the batch starts at batch_num, not at batch_num * batch_size.
BatchUrlsFromBatchNum(all, num, size) == Slice(all, num, num + size)

\* process_urls lines 149-150
BatchUrls(all, num, size) == Slice(all, num * size, num * size + size)

\* A slip: the summary is written under the key title.
SummarizedRetitled(doc) ==
    [doc EXCEPT !.metadata = SetKey(SetKey(doc.metadata, "type", "text"), "title", "sum")]

\* A slip: the summary is not stored with the document.
SummarizedTypeOnly(doc) ==
    [doc EXCEPT !.metadata = SetKey(doc.metadata, "type", "text")]

\* process_urls lines 179-180 on one document
Summarized(doc) ==
    [doc EXCEPT !.metadata = SetKey(SetKey(doc.metadata, "type", "text"), "summary", "sum")]

\* ----------------------------------------------------------------- history
SameTitle(p, q) ==
    /\ ("title" \in DOMAIN p) = ("title" \in DOMAIN q)
    /\ "title" \in DOMAIN p => p.title = q.title

\* call: the running call; rerun: it repeats the process_urls call that returned
\* just before it (same urls, same batch_limit, the loader gets the same titles);
\* loaded: the URLs handed to the loader so far; committed: the documents inserted
\* and persisted by the batches completed so far; startPkl: the persisted docstore
\* when the call began; atBatch: the stores when the batch began; prev: the urls
\* and batch_limit of the process_urls call that has just returned its store.
\* source: urls as read and normalized, before the cut to urls_limit; urls_limit:
\* the urls_limit argument of the running process_urls call.
NewHist(call, rerun) ==
    [call |-> call, rerun |-> rerun, loaded |-> <<>>, committed |-> <<>>,
     startPkl |-> disk.pkl, atBatch |-> << disk, vector_store >>,
     source |-> <<>>, urls_limit |-> NoInt, prev |-> None]

--------------------------------------------------------------------------
Init ==
    /\ batch_size \in BatchSizes
    /\ web = [u \in Urls |-> InitialPage]
    /\ disk = NoIndex
    /\ vector_store = None
    /\ pc = "idle"
    /\ calls = 0
    /\ result = "init"
    /\ urls = <<>>
    /\ batch_limit = NoInt
    /\ total_batches = 0
    /\ batch_num = 0
    /\ batch_urls = <<>>
    /\ documents = <<>>
    /\ unique_documents = <<>>
    /\ enriched = 0
    /\ hist = [call |-> "none", rerun |-> FALSE, loaded |-> <<>>, committed |-> <<>>,
               startPkl |-> Missing, atBatch |-> << NoIndex, None >>,
                source |-> <<>>, urls_limit |-> NoInt, prev |-> None]

\* The exceptions that end process_urls, named by the call that raised.
Exceptions ==
    { "load_or_create raised", "loader raised", "summarize raised",
      "add_documents raised", "save raised" }

\* A call ends: with a store handle ("db"), with None ("none") or by raising.
Return(how) ==
    /\ pc' = "returned"
    /\ result' = how

\* A slip: the test for an empty URL list is left out.
NoUrlsNever(lines) == FALSE

\* process_urls line 126: "not urls" of the list _read_urls_file returns.
NoUrls(lines) == lines = <<>>

\* process_urls lines 125-137
ProcessUrlsStart(file, limit, urls_limit) ==
    /\ pc = "idle"
    /\ calls < MaxCalls
    /\ calls' = calls + 1
    /\ LET lines == read_urls_file(file)
           prepared == IF NoUrls(lines) THEN <<>> ELSE PreparedUrls(lines, urls_limit)
       IN /\ urls' = prepared
          /\ hist' = [NewHist("urls",
                          /\ hist.prev # None
                          /\ hist.prev = [urls |-> prepared, batch_limit |-> limit])
                        EXCEPT !.urls_limit = urls_limit,
                               !.source = PreparedUrls(lines, NoInt)]
          /\ IF NoUrls(lines) THEN Return("none") ELSE pc' = "pu_load" /\ result' = "running"
    /\ batch_limit' = limit
    /\ total_batches' = 0
    /\ batch_num' = 0
    /\ batch_urls' = <<>>
    /\ documents' = <<>>
    /\ unique_documents' = <<>>
    /\ enriched' = 0
    /\ UNCHANGED << batch_size, web, store >>

\* process_urls lines 139-146
PU_LoadOrCreate(o) ==
    /\ pc = "pu_load"
    /\ o \in LoadOutcomes(disk)
    /\ vector_store' = LoadedStore(disk, vector_store, o)
    /\ disk' = LoadedDisk(disk, o)
    /\ IF LoadRaises(disk, o)
       THEN Return("load_or_create raised") /\ UNCHANGED total_batches
       ELSE /\ total_batches' = TotalBatches(Len(urls), batch_size, batch_limit)
            /\ pc' = "pu_batch"
            /\ UNCHANGED result
    /\ UNCHANGED << batch_size, web, calls, urls, batch_limit, batch_num, batch_urls,
                    documents, unique_documents, enriched, hist >>

\* The pages the loader may get for the URLs of a batch: any page for a URL of the
\* batch, one page per URL.
Fetches(slice) ==
    { f \in Webs : \A u \in Urls : (\A i \in 1 .. Len(slice) : slice[i] # u) => f[u] = web[u] }

SameTitles(f, g) == \A u \in Urls : SameTitle(f[u], g[u])

\* process_urls lines 148-154, and 188 when the loop is over
PU_Batch(loaded, fetched) ==
    /\ pc = "pu_batch"
    /\ IF batch_num < total_batches
       THEN LET slice == BatchUrls(urls, batch_num, batch_size)
            IN /\ batch_urls' = slice
               /\ IF loaded
                  THEN /\ fetched \in Fetches(slice)
                       /\ web' = fetched
                       /\ documents' = [i \in 1 .. Len(slice) |-> LoadDocument(slice[i], fetched[slice[i]])]
                       /\ hist' = [hist EXCEPT !.loaded = @ \o slice,
                                               !.rerun = @ /\ SameTitles(fetched, web),
                                               !.atBatch = << disk, vector_store >>]
                       /\ pc' = "pu_dedup"
                       /\ UNCHANGED result
                  ELSE /\ fetched = web
                       /\ Return("loader raised")
                       /\ hist' = [hist EXCEPT !.loaded = @ \o slice]
                       /\ UNCHANGED << web, documents >>
       ELSE /\ loaded
            /\ fetched = web
            /\ Return("db")
            /\ UNCHANGED << web, batch_urls, documents, hist >>
    /\ UNCHANGED << batch_size, store, calls, urls, batch_limit, total_batches,
                    batch_num, unique_documents, enriched >>

\* process_urls lines 156-175, and 185-186 when nothing is new
PU_Dedup ==
    /\ pc = "pu_dedup"
    /\ unique_documents' = UniqueDocuments(documents, vector_store)
    /\ enriched' = 0
    /\ IF HasNew(unique_documents')
       THEN pc' = "pu_enrich" /\ UNCHANGED batch_num
       ELSE pc' = "pu_batch" /\ batch_num' = batch_num + 1
    /\ UNCHANGED << batch_size, web, store, calls, result, urls, batch_limit,
                    total_batches, batch_urls, documents, hist >>

\* process_urls lines 177-180, one document of the loop
PU_Enrich(summarized) ==
    /\ pc = "pu_enrich"
    /\ IF summarized
       THEN /\ unique_documents' =
                 [unique_documents EXCEPT ![enriched + 1] = Summarized(@)]
            /\ enriched' = enriched + 1
            /\ pc' = IF enriched' = Len(unique_documents) THEN "pu_add" ELSE "pu_enrich"
            /\ UNCHANGED result
       ELSE Return("summarize raised") /\ UNCHANGED << unique_documents, enriched >>
    /\ UNCHANGED << batch_size, web, store, calls, urls, batch_limit, total_batches,
                    batch_num, batch_urls, documents, hist >>

\* process_urls line 182
PU_Add(embedded) ==
    /\ pc = "pu_add"
    /\ IF embedded
       THEN /\ vector_store' = add_documents(vector_store, unique_documents)
            /\ pc' = "pu_save"
            /\ UNCHANGED result
       ELSE Return("add_documents raised") /\ UNCHANGED vector_store
    /\ UNCHANGED << batch_size, web, disk, calls, locals, hist >>

\* process_urls lines 183-184
PU_Save(o) ==
    /\ pc = "pu_save"
    /\ o \in SaveOutcomes
    /\ disk' = save(disk, vector_store, o)
    /\ IF SaveRaises(vector_store, o)
       THEN Return("save raised") /\ UNCHANGED << batch_num, hist >>
       ELSE /\ pc' = "pu_batch"
            /\ batch_num' = batch_num + 1
            /\ hist' = [hist EXCEPT !.committed = @ \o unique_documents]
            /\ UNCHANGED result
    /\ UNCHANGED << batch_size, web, vector_store, calls, urls, batch_limit,
                    total_batches, batch_urls, documents, unique_documents, enriched >>

\* process_images: the call and its argument
ProcessImagesStart(images) ==
    /\ pc = "idle"
    /\ calls < MaxCalls
    /\ calls' = calls + 1
    /\ documents' = images
    /\ unique_documents' = <<>>
    /\ pc' = "pi_load"
    /\ result' = "running"
    /\ hist' = NewHist("images", FALSE)
    /\ urls' = <<>>
    /\ batch_limit' = NoInt
    /\ total_batches' = 0
    /\ batch_num' = 0
    /\ batch_urls' = <<>>
    /\ enriched' = 0
    /\ UNCHANGED << batch_size, web, store >>

\* process_images line 198, and 215-217 when it raises
PI_LoadOrCreate(o) ==
    /\ pc = "pi_load"
    /\ o \in LoadOutcomes(disk)
    /\ vector_store' = LoadedStore(disk, vector_store, o)
    /\ disk' = LoadedDisk(disk, o)
    /\ IF LoadRaises(disk, o)
       THEN Return("none")
       ELSE pc' = "pi_dedup" /\ UNCHANGED result
    /\ hist' = [hist EXCEPT !.atBatch = << disk', vector_store' >>]
    /\ UNCHANGED << batch_size, web, calls, locals >>

\* process_images lines 200-209, and 213-214, 219 when nothing is new
PI_Dedup ==
    /\ pc = "pi_dedup"
    /\ unique_documents' = UniqueImages(documents, vector_store)
    /\ IF HasNew(unique_documents')
       THEN pc' = "pi_add" /\ UNCHANGED result
       ELSE Return("db")
    /\ UNCHANGED << batch_size, web, store, calls, urls, batch_limit, total_batches,
                    batch_num, batch_urls, documents, enriched, hist >>

\* process_images line 210, and 215-217 when it raises
PI_Add(embedded) ==
    /\ pc = "pi_add"
    /\ IF embedded
       THEN /\ vector_store' = add_documents(vector_store, unique_documents)
            /\ pc' = "pi_save"
            /\ UNCHANGED result
       ELSE Return("none") /\ UNCHANGED vector_store
    /\ UNCHANGED << batch_size, web, disk, calls, locals, hist >>

\* process_images lines 211-212 and 219, and 215-217 when it raises
PI_Save(o) ==
    /\ pc = "pi_save"
    /\ o \in SaveOutcomes
    /\ disk' = save(disk, vector_store, o)
    /\ IF SaveRaises(vector_store, o)
       THEN Return("none") /\ UNCHANGED hist
       ELSE Return("db") /\ hist' = [hist EXCEPT !.committed = @ \o unique_documents]
    /\ UNCHANGED << batch_size, web, vector_store, calls, locals >>

\* The caller goes on after the call: the call's locals are gone. What stays is
\* whether a process_urls call has just returned its store.
CallerResumes ==
    /\ pc = "returned"
    /\ pc' = "idle"
    /\ result' = "init"
    /\ urls' = <<>>
    /\ batch_limit' = NoInt
    /\ total_batches' = 0
    /\ batch_num' = 0
    /\ batch_urls' = <<>>
    /\ documents' = <<>>
    /\ unique_documents' = <<>>
    /\ enriched' = 0
    /\ hist' = [call |-> "none", rerun |-> FALSE, loaded |-> <<>>, committed |-> <<>>,
                startPkl |-> Missing, atBatch |-> << NoIndex, None >>,
                source |-> <<>>, urls_limit |-> NoInt,
                prev |-> IF hist.call = "urls" /\ result = "db"
                         THEN [urls |-> urls, batch_limit |-> batch_limit]
                         ELSE None]
    /\ UNCHANGED << batch_size, web, store, calls >>

Next ==
    \/ \E file \in UrlFiles, limit \in BatchLimits, urls_limit \in UrlsLimits :
          ProcessUrlsStart(file, limit, urls_limit)
    \/ \E o \in SaveOutcomes \cup { "embed_error", "load_error" } : PU_LoadOrCreate(o)
    \/ \E loaded \in BOOLEAN, fetched \in Webs : PU_Batch(loaded, fetched)
    \/ PU_Dedup
    \/ \E summarized \in BOOLEAN : PU_Enrich(summarized)
    \/ \E embedded \in BOOLEAN : PU_Add(embedded)
    \/ \E o \in SaveOutcomes : PU_Save(o)
    \/ \E images \in ImageLists : ProcessImagesStart(images)
    \/ \E o \in SaveOutcomes \cup { "embed_error", "load_error" } : PI_LoadOrCreate(o)
    \/ PI_Dedup
    \/ \E embedded \in BOOLEAN : PI_Add(embedded)
    \/ \E o \in SaveOutcomes : PI_Save(o)
    \/ CallerResumes

Spec == Init /\ [][Next]_vars

--------------------------------------------------------------------------
\* What the claims speak about.

\* The identity fields of a document: source and title, as far as it has them.
IdentityFields(doc) ==
    [k \in DOMAIN doc.metadata \cap { "source", "title" } |-> doc.metadata[k]]

IsImage(doc) == Get(doc.metadata, "type", "") = "image"

\* The fingerprint the design gives a record: (source, title) of a document, the
\* encoded payload of an image.
Fingerprint(doc) ==
    IF IsImage(doc)
    THEN [kind |-> "image", identity |-> << doc.metadata.encoded_image >>]
    ELSE [kind |-> "document", identity |-> << IdentityFields(doc) >>]

Range(s) == { s[i] : i \in 1 .. Len(s) }

\* The stores of the state: the one in memory and the persisted docstore.
Stores ==
    (IF vector_store # None THEN { vector_store } ELSE {})
        \cup (IF disk.pkl # Missing THEN { disk.pkl } ELSE {})

\* process_urls is between the dedup of a batch and the end of its persist.
InCommit == pc \in { "pu_enrich", "pu_add", "pu_save" }

\* process_urls has just completed a batch: unique_documents is what it committed.
BatchDone == pc = "pu_batch" /\ batch_num > 0

\* C1: of two documents of one batch with the same (source, title), neither of which
\* is in the store, exactly one is committed: the documents a batch commits have
\* pairwise different (source, title).
C1_SameBatchDuplicatesSuppressed ==
    BatchDone =>
        \A i, j \in 1 .. Len(unique_documents) :
            i # j => IdentityFields(unique_documents[i]) # IdentityFields(unique_documents[j])

\* C2: in every reachable state no two records of a store have the same
\* fingerprint: each record is held once, and records that differ differ in
\* (source, title), or in the payload for images.
C2_AtMostOnceIndexing ==
    \A st \in Stores :
        \A d1, d2 \in BagToSet(st.docstore) :
            Fingerprint(d1) = Fingerprint(d2) => d1 = d2 /\ CopiesIn(d1, st.docstore) = 1

\* C4: a failure of summarize for one new document of a batch does not end the
\* call: process_urls never ends by the exception of summarize, and the batch's
\* other new documents are committed.
C4_EnrichmentFailureIsolated ==
    (pc = "returned" /\ hist.call = "urls") => result # "summarize raised"

\* C3: a process_urls call that repeats the call that returned just before it
\* (same urls, batch size and batch_limit, the loader gets the same source and
\* title for every URL) finds nothing new in any batch, commits nothing, and
\* leaves the persisted store as it was.
C3_RerunCommitsNothing ==
    hist.rerun =>
        /\ ~InCommit
        /\ hist.committed = <<>>
        /\ disk.pkl = hist.startPkl
        /\ disk.pkl # Missing

\* C3's case: the repeated call has returned, after loading at least two URLs
\* against a store that holds records.
C3_Witness ==
    /\ hist.rerun
    /\ pc = "returned"
    /\ result = "db"
    /\ Len(hist.loaded) >= 2
    /\ BagCardinality(disk.pkl.docstore) >= 2

\* C5: when a batch computes its existing hashes, the documents committed by the
\* earlier batches of the call are in the store in memory and in the persisted
\* one, and a document accepted as new never has the (source, title) of a document
\* that an earlier batch of the same call committed.
C5_LaterBatchesSeeEarlierCommits ==
    /\ (pc = "pu_dedup" \/ InCommit) =>
           \A st \in { vector_store, disk.pkl } :
               BagOfSeq(hist.committed) \sqsubseteq st.docstore
    /\ InCommit =>
           \A d \in Range(unique_documents), c \in Range(hist.committed) :
               IdentityFields(d) # IdentityFields(c)

\* C5's case: the third batch held a document with the (source, title) of one that
\* an earlier batch of the call committed, and it was passed over.
C5_Witness ==
    /\ pc = "pu_batch"
    /\ batch_num = 3
    /\ unique_documents = <<>>
    /\ \E d \in Range(documents), c \in Range(hist.committed) :
           IdentityFields(d) = IdentityFields(c)

\* C6: insert and persist are called in the loop only with a non-empty list of new
\* documents, persist only after they were inserted; a batch (or image call) in
\* which nothing is new leaves both stores as they were when it began.
C6_NoPersistOnEmptyBatch ==
    /\ (InCommit \/ pc \in { "pi_add", "pi_save" }) => unique_documents # <<>>
    /\ pc \in { "pu_save", "pi_save" } =>
           BagOfSeq(unique_documents) \sqsubseteq vector_store.docstore
    /\ (BatchDone /\ unique_documents = <<>>) => << disk, vector_store >> = hist.atBatch
    /\ (pc = "returned" /\ hist.call = "images" /\ result = "db" /\ unique_documents = <<>>)
           => << disk, vector_store >> = hist.atBatch

\* C6's case: a batch of documents that are all in the store has been passed over.
C6_Witness ==
    /\ BatchDone
    /\ unique_documents = <<>>
    /\ Len(documents) = 2
    /\ disk.pkl = vector_store

\* ceil(n / size)
Ceil(n, size) == CHOOSE k \in 0 .. n : k * size >= n /\ (k = 0 \/ (k - 1) * size < n)

\* total_batches has been computed by the running process_urls call.
BatchesCounted ==
    \/ pc \in { "pu_batch", "pu_dedup", "pu_enrich", "pu_add", "pu_save" }
    \/ pc = "returned" /\ hist.call = "urls" /\ result \notin { "none", "load_or_create raised" }

\* C7: total_batches is ceil(N / B), capped at batch_limit; a call that returns its
\* store has executed exactly that many batches and has handed the loader the first
\* min(N, total_batches * B) URLs, in order, which are the first L * B when
\* batch_limit = L < ceil(N / B).
C7_BatchAccounting ==
    LET n == Len(urls)
        available == Ceil(n, batch_size)
    IN BatchesCounted =>
        /\ total_batches =
               IF batch_limit = NoInt THEN available ELSE Min(available, batch_limit[1])
        /\ batch_num <= total_batches
        /\ (pc = "returned" /\ result = "db") =>
               /\ batch_num = total_batches
               /\ hist.loaded = SubSeq(urls, 1, Min(n, total_batches * batch_size))
               /\ (batch_limit # NoInt /\ batch_limit[1] < available) =>
                      hist.loaded = SubSeq(urls, 1, batch_limit[1] * batch_size)

\* C7's case: a call capped by batch_limit below ceil(N / B) has returned.
C7_Witness ==
    /\ pc = "returned"
    /\ hist.call = "urls"
    /\ result = "db"
    /\ batch_limit = Int1(2)
    /\ batch_size = 1
    /\ Len(urls) = 3
    /\ hist.loaded = SubSeq(urls, 1, 2)

\* C8: batch k is the slice of urls at the positions k*B+1 .. min((k+1)*B, N): it
\* is not empty, has at most B items, and the batches so far cover the first items
\* of urls without gap or overlap; batch_limit has no part in it.
C8_BatchMembership ==
    LET n == Len(urls)
        first == batch_num * batch_size
        last == Min(first + batch_size, n)
    IN (pc = "pu_dedup" \/ InCommit) =>
        /\ Len(batch_urls) = last - first
        /\ \A i \in 1 .. Len(batch_urls) : batch_urls[i] = urls[first + i]
        /\ Len(batch_urls) \in 1 .. batch_size
        /\ Len(documents) = Len(batch_urls)
        /\ \A i \in 1 .. Len(documents) : documents[i].metadata.source = batch_urls[i]
        /\ hist.loaded = SubSeq(urls, 1, last)

\* C8's case: the last, shorter batch of a call whose batch_limit does not cut it.
C8_Witness ==
    /\ pc = "pu_dedup"
    /\ batch_num = 1
    /\ batch_size = 2
    /\ batch_urls = << urls[3] >>
    /\ batch_limit = Int1(2)

\* The documents of the state that are not images.
TextDocuments ==
    { d \in Range(documents) \cup Range(unique_documents)
            \cup UNION { BagToSet(st.docstore) : st \in Stores } : ~IsImage(d) }

ImagesClassified ==
    \/ pc = "pi_add"
    \/ pc = "returned" /\ hist.call = "images" /\ result = "db" /\ hist.committed = <<>>

\* C10: process_images passes over an image exactly if an image record of the store
\* has its encoded payload.
C10_ImageIdentity ==
    ImagesClassified =>
        \A d \in Range(documents) :
            (d \notin Range(unique_documents)) <=>
                \E r \in BagToSet(vector_store.docstore) :
                    IsImage(r) /\ r.metadata.encoded_image = d.metadata.encoded_image

\* A step in which load_or_create runs, in process_urls or in process_images.
LoadStep == pc \in { "pu_load", "pi_load" }

\* load_or_create has returned its store to the pipeline call.
LoadReturned == pc \in { "pu_batch", "pi_dedup" }

\* C11: when load_or_create runs with no index at the path and returns, an index
\* is persisted at the path that holds no record, and the store in memory is that
\* empty store; once the path exists it exists for good, and a load_or_create that
\* finds it loads what is persisted and writes nothing: it never bootstraps again.
C11_BootstrapPersistsImmediately ==
    [][ /\ (LoadStep /\ ~IndexPathExists(disk) /\ LoadReturned') =>
               /\ IndexPathExists(disk')
               /\ Loadable(disk')
               /\ disk'.pkl = EmptyStore /\ disk'.faiss = EmptyStore
               /\ vector_store' = EmptyStore
        /\ IndexPathExists(disk) => IndexPathExists(disk')
        /\ (LoadStep /\ IndexPathExists(disk)) =>
               /\ disk' = disk
               /\ LoadReturned' => vector_store' = disk.pkl
      ]_vars

\* C11's case: a later call has loaded the empty index that the bootstrap of the
\* call before it persisted.
C11_Witness ==
    /\ calls = 2
    /\ LoadReturned
    /\ hist.startPkl = EmptyStore
    /\ vector_store = EmptyStore
    /\ disk.pkl = EmptyStore

\* C12: when the persisted index is present and cannot be loaded, or the probe
\* embedding fails, load_or_create raises, the persisted files and the store in
\* memory stay as they were, and process_urls ends by that exception with no batch
\* loaded, deduplicated, enriched or committed.
C12_FatalBootstrapErrors ==
    [][ \A o \in { "load_error", "embed_error" } :
            PU_LoadOrCreate(o) =>
                /\ disk' = disk
                /\ vector_store' = vector_store
                /\ pc' = "returned"
                /\ result' = "load_or_create raised"
                /\ hist'.loaded = <<>> /\ hist'.committed = <<>>
                /\ documents' = <<>> /\ unique_documents' = <<>> /\ batch_num' = 0
      ]_vars

\* C12's case: process_urls has ended by the exception of load_or_create on an
\* index directory whose record file is missing.
C12_Witness ==
    /\ pc = "returned"
    /\ hist.call = "urls"
    /\ result = "load_or_create raised"
    /\ IndexPathExists(disk)
    /\ disk.pkl = Missing
    /\ hist.loaded = <<>>

\* C13: when save fails after the insert of a batch, process_urls ends by that
\* exception and process_images ends with None: the batch is not counted as
\* committed, batch_num does not advance, nothing more is handed to the loader, and
\* the only step after it is the caller's.
C13_PersistFailureIsFatal ==
    [][ /\ \A o \in SaveOutcomes \ { "ok" } :
               /\ PU_Save(o) =>
                      /\ pc' = "returned" /\ result' = "save raised"
                      /\ hist'.committed = hist.committed
                      /\ hist'.loaded = hist.loaded
                      /\ batch_num' = batch_num
               /\ PI_Save(o) =>
                      /\ pc' = "returned" /\ result' = "none"
                      /\ hist'.committed = hist.committed
        /\ (pc = "returned" /\ result \in { "save raised", "none" }) =>
               (pc' = "idle" /\ hist'.loaded = <<>> /\ UNCHANGED store)
      ]_vars

\* C13's case: save has failed in a batch that is not the call's last; the store in
\* memory holds the batch's documents, the persisted records do not.
C13_Witness ==
    /\ pc = "returned"
    /\ result = "save raised"
    /\ batch_num + 1 < total_batches
    /\ BagOfSeq(unique_documents) \sqsubseteq vector_store.docstore
    /\ disk.pkl # vector_store

\* process_urls is in a batch, or has left one by an exception.
InBatch ==
    \/ pc = "pu_dedup" \/ InCommit
    \/ pc = "returned" /\ result \in { "summarize raised", "add_documents raised", "save raised" }

\* C14: the two files of the persisted index are of one generation (written from
\* the same store), and while or after a batch the persisted records are those at
\* the batch's begin, with all of the batch's new documents or with none.
C14_BatchAtomicity ==
    /\ disk.faiss = disk.pkl
    /\ InBatch =>
           \/ disk.pkl = hist.atBatch[1].pkl
           \/ disk.pkl = add_documents(hist.atBatch[1].pkl, unique_documents)

\* The records of the persisted index and of the store in memory are the same.
Durable == vector_store # None /\ disk.pkl = vector_store

\* C15: at the begin of every batch, between batches and when a call returns its
\* store, the persisted records are the records of the store in memory.
C15_DurableAtBatchBoundaries ==
    /\ pc \in { "pu_batch", "pu_dedup", "pi_dedup" } => Durable
    /\ (pc = "returned" /\ result = "db") => Durable

\* C15's case: a later batch begins after an earlier one has committed documents.
C15_Witness ==
    /\ pc = "pu_dedup"
    /\ batch_num >= 1
    /\ hist.committed # <<>>
    /\ BagOfSeq(hist.committed) \sqsubseteq disk.pkl.docstore

\* A URL file that can be read.
ReadableFiles == { f \in UrlFiles : f.readable }

\* C16: a process_urls call on a URL file that cannot be read ends in a way no call
\* on a readable file ends (the caller can tell the failure from a run over an
\* empty list), ends by an error, and leaves the store alone.
C16_SourceReadErrorReported ==
    [][ pc = "idle" =>
          \A limit \in BatchLimits, urls_limit \in UrlsLimits :
            ProcessUrlsStart(Unreadable, limit, urls_limit) =>
                /\ \A f \in ReadableFiles : ~ProcessUrlsStart(f, limit, urls_limit)
                /\ result' \in Exceptions
                /\ UNCHANGED store
      ]_vars

--------------------------------------------------------------------------
\* FaissManager used on its own: a client constructs the manager on an index path
\* and calls load_or_create, add_documents and save in any order. hist.call is the
\* method called last, result how it ended, hist.prev the call before it.

\* What may be persisted at index_path when the manager is constructed.
ManagerDisks ==
    { NoIndex,
      SaveLocal(NoIndex, EmptyStore, "ok"),
      SaveLocal(NoIndex, add_documents(EmptyStore, << CHOOSE d \in ImageDocs : d.metadata.id = "i1" >>), "ok") }

ManagerInit ==
    /\ batch_size = MaxBatchSize
    /\ web = [u \in Urls |-> InitialPage]
    /\ disk \in ManagerDisks
    /\ vector_store = None
    /\ pc = "idle"
    /\ calls = 0
    /\ result = "init"
    /\ urls = <<>>
    /\ batch_limit = NoInt
    /\ total_batches = 0
    /\ batch_num = 0
    /\ batch_urls = <<>>
    /\ documents = <<>>
    /\ unique_documents = <<>>
    /\ enriched = 0
    /\ hist = [call |-> "none", rerun |-> FALSE, loaded |-> <<>>, committed |-> <<>>,
               startPkl |-> Missing, atBatch |-> << NoIndex, None >>,
                source |-> <<>>, urls_limit |-> NoInt, prev |-> None]

\* A method of the manager is called and ends: by returning ("none", or "db" for the
\* store) or by raising.
ManagerCall(method, how) ==
    /\ calls < MaxManagerCalls
    /\ calls' = calls + 1
    /\ result' = how
    /\ hist' = [hist EXCEPT !.call = method, !.prev = [call |-> hist.call, result |-> result]]
    /\ UNCHANGED << batch_size, web, pc, locals >>

\* FaissManager.load_or_create
FM_LoadOrCreate(o) ==
    /\ o \in LoadOutcomes(disk)
    /\ vector_store' = LoadedStore(disk, vector_store, o)
    /\ disk' = LoadedDisk(disk, o)
    /\ ManagerCall("load_or_create", IF LoadRaises(disk, o) THEN "load_or_create raised" ELSE "db")

\* FaissManager.add_documents: load_or_create first when no store is set
FM_AddDocuments(docs, o, embedded) ==
    /\ IF vector_store = None
       THEN /\ o \in LoadOutcomes(disk)
            /\ disk' = LoadedDisk(disk, o)
            /\ IF LoadRaises(disk, o)
               THEN /\ embedded
                    /\ vector_store' = LoadedStore(disk, vector_store, o)
                    /\ ManagerCall("add_documents", "load_or_create raised")
               ELSE /\ vector_store' =
                         IF embedded
                         THEN add_documents(LoadedStore(disk, vector_store, o), docs)
                         ELSE LoadedStore(disk, vector_store, o)
                    /\ ManagerCall("add_documents",
                                   IF embedded THEN "none" ELSE "add_documents raised")
       ELSE /\ o = "ok"
            /\ disk' = disk
            /\ vector_store' = IF embedded THEN add_documents(vector_store, docs) ELSE vector_store
            /\ ManagerCall("add_documents", IF embedded THEN "none" ELSE "add_documents raised")

\* FaissManager.save
FM_Save(o) ==
    /\ o \in SaveOutcomes
    /\ vector_store = None => o = "ok"
    /\ disk' = save(disk, vector_store, o)
    /\ vector_store' = vector_store
    /\ ManagerCall("save", IF SaveRaises(vector_store, o) THEN "save raised" ELSE "none")

ManagerNext ==
    \/ \E o \in SaveOutcomes \cup { "embed_error", "load_error" } : FM_LoadOrCreate(o)
    \/ \E docs \in ImageLists, o \in SaveOutcomes \cup { "embed_error", "load_error" },
           embedded \in BOOLEAN : FM_AddDocuments(docs, o, embedded)
    \/ \E o \in SaveOutcomes : FM_Save(o)

ManagerSpec == ManagerInit /\ [][ManagerNext]_vars

\* The records of the manager's store; a manager with no store has none.
Records(vs) == IF vs = None THEN EmptyBag ELSE vs.docstore

\* C17: add_documents with an empty sequence leaves the records in memory and the
\* persisted index as they are, in every state of the manager.
C17_EmptyInsertIsNoOp ==
    [][ \A o \in SaveOutcomes \cup { "embed_error", "load_error" }, embedded \in BOOLEAN :
            FM_AddDocuments(<<>>, o, embedded) =>
                /\ Records(vector_store') = Records(vector_store)
                /\ disk' = disk
      ]_vars

\* C18: a save that succeeds writes both files from the whole store in memory; a
\* save called directly after a save that succeeded leaves the persisted index as
\* that one left it.
C18_PersistIdempotent ==
    [][ \A o \in SaveOutcomes :
            FM_Save(o) =>
                /\ (o = "ok" /\ vector_store # None) =>
                       disk' = [dir |-> TRUE, faiss |-> vector_store, pkl |-> vector_store]
                /\ (hist.call = "save" /\ result = "none") => disk' = disk
      ]_vars

\* C18's case: save has returned twice in a row on a store that holds records.
C18_Witness ==
    /\ hist.call = "save" /\ result = "none"
    /\ hist.prev = [call |-> "save", result |-> "none"]
    /\ vector_store # None
    /\ BagCardinality(Records(vector_store)) >= 1
    /\ disk.pkl = vector_store

--------------------------------------------------------------------------
\* The value process_urls hands to its caller when it returns: the store, or None.
ReturnedValue == IF result = "db" THEN vector_store ELSE None

\* A run report: counts for every batch and in total.
IsReport(v) == { "batches", "total" } \subseteq DOMAIN v

CountsAddUp(c) == c.seen = c.duplicates + c.committed + c.failed

RECURSIVE SumOf(_, _)
SumOf(batches, field) ==
    IF batches = <<>> THEN 0 ELSE Head(batches)[field] + SumOf(Tail(batches), field)

\* C19: the value a process_urls call returns is a report with the counts seen,
\* duplicates, enriched, committed, failed for every batch and in total, where
\* seen = duplicates + committed + failed and every total is the sum over the batches.
C19_RunReportAccounting ==
    (pc = "returned" /\ hist.call = "urls" /\ result \in { "db", "none" }) =>
        LET v == ReturnedValue
        IN /\ IsReport(v)
           /\ \A i \in 1 .. Len(v.batches) : CountsAddUp(v.batches[i])
           /\ \A field \in { "seen", "duplicates", "enriched", "committed", "failed" } :
                  v.total[field] = SumOf(v.batches, field)

\* min(S, N, L * B), where a limit that is None does not limit.
Processed(n, limit, size, urls_limit) ==
    LET cut == IF urls_limit = NoInt THEN n ELSE Min(urls_limit[1], n)
    IN IF limit = NoInt THEN cut ELSE Min(cut, limit[1] * size)

\* C20: urls is the first min(S, N) source items (all N without urls_limit);
\* total_batches is computed from that list and capped by batch_limit; a call that
\* returns its store has handed the loader the first min(S, N, L * B) source items.
C20_SourceLimitBeforeBatching ==
    LET n == Len(hist.source)
        cut == Processed(n, NoInt, batch_size, hist.urls_limit)
    IN hist.call = "urls" =>
        /\ urls = SubSeq(hist.source, 1, cut)
        /\ BatchesCounted =>
               total_batches =
                   IF batch_limit = NoInt THEN Ceil(cut, batch_size)
                   ELSE Min(Ceil(cut, batch_size), batch_limit[1])
        /\ (pc = "returned" /\ result = "db") =>
               hist.loaded =
                   SubSeq(hist.source, 1, Processed(n, batch_limit, batch_size, hist.urls_limit))

\* C20's case: a call on 3 source items with urls_limit 2 and batch_limit 1 on
\* batches of one URL has returned after it handed the loader the first item.
C20_Witness ==
    /\ pc = "returned" /\ hist.call = "urls" /\ result = "db"
    /\ hist.urls_limit = Int1(2)
    /\ batch_limit = Int1(1)
    /\ batch_size = 1
    /\ Len(hist.source) = 3
    /\ Len(urls) = 2
    /\ hist.loaded = << hist.source[1] >>

--------------------------------------------------------------------------
HasSummary(doc) == "summary" \in DOMAIN doc.metadata

--------------------------------------------------------------------------
\* The dedup of one batch on its own: a store that holds one document, and a batch
\* of one loaded document, for sources and titles that share characters.

\* Pages of two sources: a title, or none.
DedupSources == { "a", "ab" }
DedupPages == { [text |-> "c1", title |-> t] : t \in { "c", "bc", "None" } } \cup { [text |-> "c1"] }
DedupDocuments == { LoadDocument(u, page) : u \in DedupSources, page \in DedupPages }

DedupInit ==
    \E stored \in DedupDocuments, loaded \in DedupDocuments :
        LET db == add_documents(EmptyStore, << Summarized(stored) >>)
            persisted == SaveLocal(NoIndex, db, "ok")
        IN /\ batch_size \in BatchSizes
           /\ web = [u \in Urls |-> InitialPage]
           /\ disk = persisted
           /\ vector_store = db
           /\ pc = "pu_dedup"
           /\ calls = MaxCalls
           /\ result = "running"
           /\ urls = << loaded.metadata.source >>
           /\ batch_limit = NoInt
           /\ total_batches = TotalBatches(Len(urls), batch_size, batch_limit)
           /\ batch_num = 0
           /\ batch_urls = BatchUrls(urls, batch_num, batch_size)
           /\ documents = << loaded >>
           /\ unique_documents = <<>>
           /\ enriched = 0
           /\ hist = [call |-> "urls", rerun |-> FALSE, loaded |-> urls, committed |-> <<>>,
                      startPkl |-> db, atBatch |-> << persisted, db >>,
                      source |-> urls, urls_limit |-> NoInt, prev |-> None]

DedupNext == PU_Dedup

DedupSpec == DedupInit /\ [][DedupNext]_vars

\* The dedup of the batch has classified the loaded documents.
Classified == pc \in { "pu_enrich", "pu_batch" }

\* C22: documents that differ in (source, title) are hashed to different values,
\* and a loaded document is passed over only if a record of the store has its
\* (source, title).
C22_IdentitySerializationInjective ==
    Classified =>
        /\ \A d1, d2 \in TextDocuments :
               IdentityFields(d1) # IdentityFields(d2) => value_to_hash(d1) # value_to_hash(d2)
        /\ \A d \in Range(documents) :
               d \notin Range(unique_documents) =>
                   \E r \in BagToSet(vector_store.docstore) :
                       IdentityFields(r) = IdentityFields(d)

--------------------------------------------------------------------------
\* The manager's lifecycle states between calls: it has no store (Uninitialized)
\* or it has one (Ready). Bootstrapping is the else branch of load_or_create.
Uninitialized == vector_store = None
Ready == vector_store # None

\* C23: a Ready manager stays Ready and never bootstraps again: a load_or_create on
\* it finds the index at its path. Records are inserted and files written only by
\* a manager that is Ready when the call returns, add_documents on an
\* Uninitialized manager runs load_or_create first, and save on an Uninitialized
\* manager writes nothing.
C23_StoreLifecycle ==
    [][ /\ Ready => Ready'
        /\ \A o \in SaveOutcomes \cup { "embed_error", "load_error" } :
               (Ready /\ FM_LoadOrCreate(o)) => IndexPathExists(disk)
        /\ (Records(vector_store') # Records(vector_store) \/ disk' # disk) => Ready'
        /\ \A docs \in ImageLists, o \in SaveOutcomes \cup { "embed_error", "load_error" },
               embedded \in BOOLEAN :
               (Uninitialized /\ FM_AddDocuments(docs, o, embedded)) =>
                   /\ vector_store' \in { vector_store, LoadedStore(disk, vector_store, o),
                                          add_documents(LoadedStore(disk, vector_store, o), docs) }
                   /\ disk' = LoadedDisk(disk, o)
        /\ \A o \in SaveOutcomes : (Uninitialized /\ FM_Save(o)) => disk' = disk
      ]_vars

--------------------------------------------------------------------------
\* The configuration of the processor: the constructor, the batch_size setter, and
\* the begin of a process_urls call under the batch size they leave.

\* The values a caller may pass as batch size: ints, also 0 and negative ones, and
\* values that are no int.
ConfigBatchSizes == -1 .. MaxBatchSize
SetterInputs ==
    { [isint |-> TRUE, value |-> v] : v \in ConfigBatchSizes } \cup { [isint |-> FALSE, value |-> 0] }

\* VectorStoreBatchProcessor.__init__: batch_size is stored as it is given.
ConfigInit ==
    /\ batch_size \in ConfigBatchSizes
    /\ web = [u \in Urls |-> InitialPage]
    /\ disk = NoIndex
    /\ vector_store = None
    /\ pc = "idle"
    /\ calls = 0
    /\ result = "init"
    /\ urls = <<>>
    /\ batch_limit = NoInt
    /\ total_batches = 0
    /\ batch_num = 0
    /\ batch_urls = <<>>
    /\ documents = <<>>
    /\ unique_documents = <<>>
    /\ enriched = 0
    /\ hist = [call |-> "none", rerun |-> FALSE, loaded |-> <<>>, committed |-> <<>>,
               startPkl |-> Missing, atBatch |-> << NoIndex, None >>,
               source |-> <<>>, urls_limit |-> NoInt, prev |-> None]

\* The batch_size setter: a value that is no int raises ValueError, every int is
\* stored.
SetBatchSize(input) ==
    /\ pc = "idle"
    /\ batch_size' = IF input.isint THEN input.value ELSE batch_size
    /\ result' = IF input.isint THEN "none" ELSE "ValueError"
    /\ UNCHANGED << web, store, pc, calls, locals, hist >>

ConfigNext ==
    \/ \E input \in SetterInputs : SetBatchSize(input)
    \/ \E file \in UrlFiles, limit \in BatchLimits, urls_limit \in UrlsLimits :
          ProcessUrlsStart(file, limit, urls_limit)

ConfigSpec == ConfigInit /\ [][ConfigNext]_vars

\* C24: a batch size that is not positive is rejected by the constructor and by the
\* setter, so the processor never holds one and process_urls never begins a call
\* with batch_size <= 0.
C24_BatchSizeValidated ==
    hist.call = "urls" => batch_size > 0

--------------------------------------------------------------------------
\* C25: dedup is kind-separated. A document that process_urls passes over has a
\* document record with its (source, title) in the store, and an image that
\* process_images passes over has an image record with its encoded payload in the
\* store: a record of the other kind makes no candidate a duplicate (an image with
\* the payload "" is inserted when the store holds text documents only).
C25_KindSeparatedDedup ==
    [][ /\ pc = "pu_dedup" =>
            \A d \in Range(documents) :
                d \notin Range(unique_documents') =>
                    \E r \in BagToSet(vector_store.docstore) :
                        ~IsImage(r) /\ IdentityFields(r) = IdentityFields(d)
        /\ pc = "pi_dedup" =>
            \A d \in Range(documents) :
                d \notin Range(unique_documents') =>
                    \E r \in BagToSet(vector_store.docstore) :
                        IsImage(r) /\ r.metadata.encoded_image = d.metadata.encoded_image
      ]_vars

--------------------------------------------------------------------------
\* C26: the identity of a record is stable under enrichment. While a batch is being
\* enriched and inserted, each admitted document differs from the document as it
\* was loaded in the metadata keys type and summary only, so its (source, title)
\* and its hash are those it was admitted with; and once the batch is inserted the
\* hash process_urls computes from the store's records covers the hash of every
\* document the batch loaded, in this batch and in every later batch and run.
C26_IdentityStableUnderEnrichment ==
    /\ pc \in { "pu_enrich", "pu_add" } =>
           LET admitted == UniqueDocuments(documents, vector_store)
           IN /\ Len(unique_documents) = Len(admitted)
              /\ \A i \in 1 .. Len(admitted) :
                     LET was == admitted[i]
                         now == unique_documents[i]
                     IN /\ value_to_hash(now) = value_to_hash(was)
                        /\ IdentityFields(now) = IdentityFields(was)
                        /\ now.page_content = was.page_content
                        /\ DOMAIN now.metadata \subseteq DOMAIN was.metadata \cup { "type", "summary" }
                        /\ \A k \in DOMAIN was.metadata \ { "type", "summary" } :
                               k \in DOMAIN now.metadata /\ now.metadata[k] = was.metadata[k]
    /\ (pc = "pu_save" \/ BatchDone) =>
           \A d \in Range(documents) : value_to_hash(d) \in existing_hashes(vector_store)

\* A later run has loaded a page whose record an earlier run enriched and stored,
\* and has passed it over: the stored record hashes as the loaded document does.
C26_Witness ==
    /\ BatchDone
    /\ calls = 2
    /\ documents # <<>>
    /\ unique_documents = <<>>
    /\ \E r \in BagToSet(vector_store.docstore) :
           /\ HasSummary(r)
           /\ r \notin Range(documents)
           /\ value_to_hash(r) = value_to_hash(documents[1])

--------------------------------------------------------------------------
\* C27: process_images never raises. When load_or_create, insert or persist fails,
\* the call returns None; when the failure is that of load_or_create (before the
\* insert), the store in memory and the persisted index are as they were; and when
\* the call returns the store, every image it found new is in the store in memory
\* and in the persisted records.
C27_ImagesNeverRaise ==
    [][ /\ (hist.call = "images" /\ pc' = "returned") => result' \in { "db", "none" }
        /\ \A o \in SaveOutcomes \cup { "embed_error", "load_error" } :
               (PI_LoadOrCreate(o) /\ LoadRaises(disk, o)) =>
                   /\ pc' = "returned" /\ result' = "none"
                   /\ UNCHANGED store
        /\ PI_Add(FALSE) => (pc' = "returned" /\ result' = "none")
        /\ \A o \in SaveOutcomes \ { "ok" } :
               PI_Save(o) => (pc' = "returned" /\ result' = "none")
        /\ (hist.call = "images" /\ pc' = "returned" /\ result' = "db") =>
               /\ BagOfSeq(unique_documents') \sqsubseteq vector_store'.docstore
               /\ disk'.pkl # Missing
               /\ BagOfSeq(unique_documents') \sqsubseteq disk'.pkl.docstore
      ]_vars

--------------------------------------------------------------------------
\* C28: when the URL list process_urls reads is empty (the file is empty, has blank
\* lines only, or cannot be read), the call returns None at once: load_or_create,
\* the loader, summarize, insert and persist are not called, so the store in memory
\* and the persisted index are what they were when the call began.
C28_EmptySourceLeavesStoreUntouched ==
    (hist.call = "urls" /\ hist.source = <<>>) =>
        /\ pc = "returned" /\ result = "none"
        /\ store = hist.atBatch
        /\ disk.pkl = hist.startPkl
        /\ hist.loaded = <<>> /\ hist.committed = <<>>
        /\ urls = <<>> /\ documents = <<>> /\ unique_documents = <<>> /\ enriched = 0

\* process_urls has returned None for an empty URL list where no index is
\* persisted: none has been made.
C28_Witness ==
    /\ hist.call = "urls" /\ hist.source = <<>>
    /\ pc = "returned" /\ result = "none"
    /\ disk = NoIndex
    /\ vector_store = None

--------------------------------------------------------------------------
\* process_images has loaded the store and has not failed since.
ImagesLoaded ==
    /\ hist.call = "images"
    /\ pc \in { "pi_dedup", "pi_add", "pi_save" } \/ (pc = "returned" /\ result = "db")

\* C29: persist and load are a round trip. load_or_create on a persisted index
\* gives the persisted records, whatever store the manager held before (a new
\* process holds none); when process_urls has completed, the persisted records are
\* those of the store in memory; so the call that follows begins from exactly the
\* records persisted, and process_images neither loses nor inserts again a document
\* that process_urls has committed.
C29_PersistLoadRoundTrip ==
    /\ Loadable(disk) =>
           /\ LoadedStore(disk, vector_store, "ok") = disk.pkl
           /\ LoadedStore(disk, None, "ok") = disk.pkl
    /\ ((pc = "pi_dedup" \/ (pc = "pu_batch" /\ batch_num = 0)) /\ hist.startPkl # Missing) =>
           (vector_store = hist.startPkl /\ disk.pkl = hist.startPkl)
    /\ (hist.prev # None \/ (pc = "returned" /\ hist.call = "urls" /\ result = "db")) => Durable
    /\ (ImagesLoaded /\ hist.startPkl # Missing) =>
           \A r \in BagToSet(hist.startPkl.docstore) :
               ~IsImage(r) =>
                   /\ CopiesIn(r, vector_store.docstore) = CopiesIn(r, hist.startPkl.docstore)
                   /\ pc # "pi_save" =>
                          CopiesIn(r, disk.pkl.docstore) = CopiesIn(r, hist.startPkl.docstore)

\* process_images has returned the store after inserting an image into an index
\* that holds a summarized document of an earlier process_urls run.
C29_Witness ==
    /\ hist.call = "images"
    /\ pc = "returned" /\ result = "db"
    /\ hist.committed # <<>>
    /\ hist.startPkl # Missing
    /\ \E r \in BagToSet(hist.startPkl.docstore) : HasSummary(r) /\ r \in BagToSet(disk.pkl.docstore)
    /\ \E r \in BagToSet(disk.pkl.docstore) : IsImage(r)

====
